---------------------------- MODULE Spec2Model ----------------------------
(***************************************************************************)
(* Model of the form validation schemas (registration and profile edit)    *)
(* and of the password-reset submit handler.                               *)
(*                                                                         *)
(* Values of the form are JavaScript values; each is a record with a       *)
(* "kind" tag: null, undefined, string, file (a browser File), blob (an     *)
(* object that is not a File and has a size and a type), other (any other  *)
(* shape), list (an array), date, invalid (an Invalid Date), object.       *)
(* A date is a record [y, m, d, h]: a calendar day and an hour of that     *)
(* day; dates are ordered as their timestamps are.                         *)
(* The schemas are evaluated as the schema library (Yup 1.x) evaluates     *)
(* them: the value is cast, the built-in checks (type, null, undefined,    *)
(* black list) run first, then the declared tests in the order declared,   *)
(* and the first message of a field is the field's error.                  *)
(*                                                                         *)
(* Fields whose rules depend on no other modelled field and that no        *)
(* checked property reads (fullName, email, phone, address, password,      *)
(* confirmPassword, nationalId) are not part of the state.                 *)
(***************************************************************************)
EXTENDS Integers, Sequences, FiniteSets, TLC

VARIABLES schema,      \* "registration" or "edit": which schema validates
          values,      \* the form's field values
          loadTime,    \* when the schema module was loaded
          schemaTime,  \* when the form schema was last constructed
          now,         \* the current time
          result,      \* the last validation run: when it ran and its errors
          from,        \* ForgotPassword: the "from" query parameter is present
          loggedInEmail, \* ForgotPassword: the email of the signed-in user, or empty
          initialEmail, \* ForgotPassword: the initialValues.email formik last took up
          email,       \* ForgotPassword: formik.values.email
          isSubmitting,\* ForgotPassword: formik.isSubmitting
          fieldError,  \* formik.errors.email
          pc,          \* ForgotPassword.onSubmit, per call: where the handler is
          submitted,   \* per call: the values.email the handler was called with
          calls,       \* per call: the external calls it has issued
          errorToasts, \* per call: its toast.error calls
          successToasts, \* per call: its toast.success calls
          pushed,      \* per call: router.push("/auth/login") ran
          outcome,     \* per call: how it ended, or "none"
          lookupAnswer \* per call: what checkExistingEmail gave (existingUser, authError)

formVars == <<schema, values, loadTime, schemaTime, now, result>>
resetVars == <<from, loggedInEmail, initialEmail, email, isSubmitting, pc, submitted, calls,
               errorToasts, successToasts, fieldError, pushed, outcome,
               lookupAnswer>>
vars == <<schema, values, loadTime, schemaTime, now, result,
          from, loggedInEmail, initialEmail, email, isSubmitting, pc, submitted, calls,
          errorToasts, successToasts, fieldError, pushed, outcome,
          lookupAnswer>>

-----------------------------------------------------------------------------
(* Bounds of the model *)

\* longest username drawn
MaxLen == 6
\* days the clock can advance past its first day
ClockSpan == 1
\* longest proof-file list drawn
MaxFiles == 2
\* longest email address typed on the password-reset page
MaxEmailLen == 3
\* calls of onSubmit that can be running at the same time
MaxHandlers == 2

-----------------------------------------------------------------------------
(* JavaScript values *)

NullV == [kind |-> "null"]
Undef == [kind |-> "undefined"]
Str(s) == [kind |-> "string", s |-> s]
File(size, type) == [kind |-> "file", size |-> size, type |-> type]
StringRef == [kind |-> "string", s |-> <<"u", "r", "l">>]
Blob(size, type) == [kind |-> "blob", size |-> size, type |-> type]
OtherV == [kind |-> "other"]
List(items) == [kind |-> "list", items |-> items]
\* a Date at hour h of a calendar day
DateAt(y, m, d, h) == [kind |-> "date", y |-> y, m |-> m, d |-> d, h |-> h]
\* new Date(y, m - 1, d): the first instant of a calendar day, what a date
\* field gives
Date(y, m, d) == DateAt(y, m, d, 0)
InvalidDate == [kind |-> "invalid"]

\* a < b for two dates, as Date.getTime() orders them
DateLT(a, b) ==
    \/ a.y < b.y
    \/ a.y = b.y /\ a.m < b.m
    \/ a.y = b.y /\ a.m = b.m /\ a.d < b.d
    \/ a.y = b.y /\ a.m = b.m /\ a.d = b.d /\ a.h < b.h

DateLE(a, b) == a = b \/ DateLT(a, b)

\* !value of JavaScript, for the kinds of value the tests apply it to
Falsy(v) ==
    \/ v.kind \in {"null", "undefined"}
    \/ v.kind = "string" /\ v.s = <<>>

BoundedSeq(S, n) == UNION {[1..k -> S] : k \in 0..n}

RECURSIVE TrimLeft(_)
TrimLeft(s) == IF s # <<>> /\ Head(s) = " " THEN TrimLeft(Tail(s)) ELSE s

RECURSIVE TrimRight(_)
TrimRight(s) ==
    IF s # <<>> /\ s[Len(s)] = " " THEN TrimRight(SubSeq(s, 1, Len(s) - 1)) ELSE s

\* String.prototype.trim, the transform of Yup.string().trim()
Trim(s) == TrimRight(TrimLeft(s))

LowerLetters == {"a", "b", "c", "d", "e", "f", "g", "h", "i", "j", "k", "l", "m",
                 "n", "o", "p", "q", "r", "s", "t", "u", "v", "w", "x", "y", "z"}
UpperLetters == {"A", "B", "C", "D", "E", "F", "G", "H", "I", "J", "K", "L", "M",
                 "N", "O", "P", "Q", "R", "S", "T", "U", "V", "W", "X", "Y", "Z"}
Digits == {"0", "1", "2", "3", "4", "5", "6", "7", "8", "9"}

Chars(s) == {s[i] : i \in 1..Len(s)}

OK == ""


-----------------------------------------------------------------------------
(* Constants imported by the schemas *)

\* ../constants FILE_SIZE_LIMIT: 2 MB in bytes
FILE_SIZE_LIMIT == 2 * 1024 * 1024

\* ../constants IMAGE_SUPPORTED_FORMATS: JPG, JPEG, GIF, PNG
IMAGE_SUPPORTED_FORMATS == {"image/jpg", "image/jpeg", "image/gif", "image/png"}

\* ../constants GENERAL_SUPPORTED_FORMATS: the image formats and PDF, DOC, DOCX, TXT
GENERAL_SUPPORTED_FORMATS ==
    IMAGE_SUPPORTED_FORMATS \cup
    {"application/pdf", "application/msword",
     "application/vnd.openxmlformats-officedocument.wordprocessingml.document",
     "text/plain"}

\* the age from which a user is a pensioner
PENSION_AGE == 60

\* ../ageCalculator calculateAge: the difference of the calendar years, less one
\* when asOf has not reached the birth month and day in its year
calculateAge(dob, asOf) ==
    LET before == asOf.m < dob.m \/ (asOf.m = dob.m /\ asOf.d < dob.d)
    IN  asOf.y - dob.y - (IF before THEN 1 ELSE 0)

-----------------------------------------------------------------------------
(* Messages *)

MsgNotAFile == "Not a file"
MsgTooLarge == "File too large (max 2MB)"
MsgImageFormat == "Unsupported file format (only JPG, JPEG, GIF, PNG)"
MsgProofFormat ==
    "Unsupported file format (only JPG, JPEG, GIF, PNG, PDF, DOC, DOCX, TXT)"
MsgUsernameRequired == "Username is required"
MsgUsernameLength == "Username must be exactly 5 characters"
MsgUsernameMixed ==
    "Username must contain at least one letter and one digit and only lowercase letters and digits are allowed"
MsgUserTypeRequired == "User type is required"
MsgUserTypeInvalid == "Invalid user type"
MsgUnder60 == "Age is less than 60 for Pension User."
MsgOver60 == "Type cannot be \"Student\" or \"General\" for an age of 60 or older."
MsgDobRequired == "Date of birth is required"
MsgInvalidDate == "Invalid date"
MsgDobFuture == "Date of birth cannot be in the future"
MsgSchoolRequired == "School details are required"
MsgSchoolNotNull == "school cannot be null"
MsgSchoolOnlyStudents == "School details are only allowed for student users"
MsgSchoolNameMin == "School/ University name must be at least 2 characters"
MsgSchoolNameRequired == "School/ University Name is required"
MsgSchoolIdChars == "ID can only contain letters, numbers, and hyphens"
MsgSchoolIdRequired == "School/ University ID is required"
MsgProofRequired == "Proof is required"
MsgExpiryRequired == "Expiry date is required"
MsgExpiryPast == "Expiry date cannot be in the past"
MsgNationalIdProofOnlyPension == "National ID Proof is only allowed for pensioners."
MsgNationalIdProofRequired == "National ID Proof is required"

\* the first message of a list of test outcomes, or OK
RECURSIVE FirstError(_)
FirstError(msgs) ==
    IF msgs = <<>> THEN OK
    ELSE IF Head(msgs) # OK THEN Head(msgs) ELSE FirstError(Tail(msgs))

-----------------------------------------------------------------------------
(* File rules *)

\* imageFileSchema, test "fileType" (registration only)
ImageFileTypeTest(v) ==
    \/ v.kind \in {"null", "undefined"}
    \/ v.kind = "file"

\* mutant of ImageFileSizeTest: the limit itself is refused
ImageFileSizeTestStrict(sch, v) ==
    \/ v.kind \in {"null", "undefined"}
    \/ v.kind = "file" /\ v.size < FILE_SIZE_LIMIT
    \/ sch = "edit" /\ v.kind = "string"

\* imageFileSchema, test "fileSize"
ImageFileSizeTest(sch, v) ==
    \/ v.kind \in {"null", "undefined"}
    \/ v.kind = "file" /\ v.size <= FILE_SIZE_LIMIT
    \/ sch = "edit" /\ v.kind = "string"

\* imageFileSchema, test "fileFormat"
ImageFileFormatTest(sch, v) ==
    \/ v.kind \in {"null", "undefined"}
    \/ v.kind = "file" /\ v.type \in IMAGE_SUPPORTED_FORMATS
    \/ sch = "edit" /\ v.kind = "string"

\* profilePic: imageFileSchema, a nullable optional mixed with its tests in order
ProfilePicError(sch, v) ==
    FirstError(<<
        IF sch = "registration" /\ ~ImageFileTypeTest(v) THEN MsgNotAFile ELSE OK,
        IF ~ImageFileSizeTest(sch, v) THEN MsgTooLarge ELSE OK,
        IF ~ImageFileFormatTest(sch, v) THEN MsgImageFormat ELSE OK >>)

\* proofFileSchema, test "fileType" (registration only): every element is a File
ProofFileTypeTest(v) ==
    \/ v.kind \in {"null", "undefined"}
    \/ \A i \in 1..Len(v.items) : v.items[i].kind = "file"

\* what a test callback gives: true, false, or a TypeError thrown on reading a
\* property of null or undefined
TestTrue == "true"
TestFalse == "false"
TestThrows == "TypeError"

Outcome(b) == IF b THEN TestTrue ELSE TestFalse

\* Array.prototype.every over the callback's outcomes, left to right: the first
\* outcome that is not true ends the loop
RECURSIVE Every(_)
Every(outs) ==
    IF outs = <<>> THEN TestTrue
    ELSE IF Head(outs) # TestTrue THEN Head(outs)
    ELSE Every(Tail(outs))

\* the callback of "fileSize" on one element. Registration: file.size <=
\* FILE_SIZE_LIMIT on whatever the element is; a value without a size compares
\* as false. Edit: a File by its size, a string passes, anything else fails.
ProofSizeOfElement(sch, e) ==
    IF sch = "registration"
    THEN IF e.kind \in {"null", "undefined"} THEN TestThrows
         ELSE Outcome(e.kind \in {"file", "blob"} /\ e.size <= FILE_SIZE_LIMIT)
    ELSE IF e.kind = "file" THEN Outcome(e.size <= FILE_SIZE_LIMIT)
         ELSE Outcome(e.kind = "string")

\* the callback of "fileFormat" on one element. Registration:
\* GENERAL_SUPPORTED_FORMATS.includes(file.type) on whatever the element is.
\* Edit: a File by its type, a string passes, anything else fails.
ProofFormatOfElement(sch, e) ==
    IF sch = "registration"
    THEN IF e.kind \in {"null", "undefined"} THEN TestThrows
         ELSE Outcome(e.kind \in {"file", "blob"} /\ e.type \in GENERAL_SUPPORTED_FORMATS)
    ELSE IF e.kind = "file" THEN Outcome(e.type \in GENERAL_SUPPORTED_FORMATS)
         ELSE Outcome(e.kind = "string")

\* mutant of ProofFileSizeTest: the edit schema lets every value that is not a
\* File through
ProofFileSizeTestPassThrough(sch, v) ==
    IF v.kind \in {"null", "undefined"} THEN TestTrue
    ELSE Every([i \in 1..Len(v.items) |->
                  IF sch = "edit" /\ v.items[i].kind # "file" THEN TestTrue
                  ELSE ProofSizeOfElement(sch, v.items[i])])

\* proofFileSchema, test "fileSize": every element is within the size limit
ProofFileSizeTest(sch, v) ==
    IF v.kind \in {"null", "undefined"} THEN TestTrue
    ELSE Every([i \in 1..Len(v.items) |-> ProofSizeOfElement(sch, v.items[i])])

\* proofFileSchema, test "fileFormat": every element has a supported type
ProofFileFormatTest(sch, v) ==
    IF v.kind \in {"null", "undefined"} THEN TestTrue
    ELSE Every([i \in 1..Len(v.items) |-> ProofFormatOfElement(sch, v.items[i])])

\* a declared test of proofFileSchema throws: the validation run is rejected
\* with the TypeError and reports no field error
ProofFileThrows(sch, v) ==
    TestThrows \in {ProofFileSizeTest(sch, v), ProofFileFormatTest(sch, v)}

\* mutant of ProofFileTests: the format test is declared before the size test
ProofFileTestsFormatFirst(sch, v) ==
    << IF sch = "registration" /\ ~ProofFileTypeTest(v) THEN MsgNotAFile ELSE OK,
       IF ProofFileFormatTest(sch, v) = TestFalse THEN MsgProofFormat ELSE OK,
       IF ProofFileSizeTest(sch, v) = TestFalse THEN MsgTooLarge ELSE OK >>

\* the messages of the declared tests of proofFileSchema, in order
ProofFileTests(sch, v) ==
    << IF sch = "registration" /\ ~ProofFileTypeTest(v) THEN MsgNotAFile ELSE OK,
       IF ProofFileSizeTest(sch, v) = TestFalse THEN MsgTooLarge ELSE OK,
       IF ProofFileFormatTest(sch, v) = TestFalse THEN MsgProofFormat ELSE OK >>

\* schema.required(message) on a non-string schema: null and undefined fail,
\* every other value, an empty array included, passes
RequiredTest(v) == v.kind \notin {"null", "undefined"}

-----------------------------------------------------------------------------
(* Field rules *)

\* mutant of UsernameIsMixed: the digit is not asked for
UsernameIsMixedNoDigit(v) ==
    /\ ~Falsy(v)
    /\ v.kind = "string"
    /\ Len(v.s) = 5 /\ Chars(v.s) \subseteq (LowerLetters \cup Digits)
    /\ Chars(v.s) \cap LowerLetters # {}

\* usernameSchema, test "is-mixed"
UsernameIsMixed(v) ==
    /\ ~Falsy(v)
    /\ v.kind = "string"
    /\ Len(v.s) = 5 /\ Chars(v.s) \subseteq (LowerLetters \cup Digits)
    /\ Chars(v.s) \cap LowerLetters # {}
    /\ Chars(v.s) \cap Digits # {}

\* usernameSchema: required, then length(5), then "is-mixed"
UsernameError(v) ==
    IF v.kind \in {"null", "undefined"} THEN MsgUsernameRequired
    ELSE FirstError(<<
        IF Len(v.s) = 0 THEN MsgUsernameRequired ELSE OK,
        IF Len(v.s) # 5 THEN MsgUsernameLength ELSE OK,
        IF ~UsernameIsMixed(v) THEN MsgUsernameMixed ELSE OK >>)

\* mutant of IsUnder60: the sixtieth year still counts as under sixty
IsUnder60Inclusive(dob, asOf) ==
    /\ dob.kind = "date"
    /\ calculateAge(dob, asOf) <= PENSION_AGE

\* userType.when("dob"), first condition: is
IsUnder60(dob, asOf) ==
    /\ dob.kind = "date"
    /\ calculateAge(dob, asOf) < PENSION_AGE

\* userType.when("dob"), second condition: is
IsOver60(dob, asOf) ==
    /\ dob.kind = "date"
    /\ calculateAge(dob, asOf) >= PENSION_AGE

\* the values notOneOf forbids for this dob: the black list of the resolved schema
UserTypeBlacklist(dob, asOf) ==
    (IF IsUnder60(dob, asOf) THEN {"pension"} ELSE {}) \cup
    (IF IsOver60(dob, asOf) THEN {"student", "general"} ELSE {})

\* userType: the black list first (the message of the last notOneOf applied),
\* then required, then "invalid-user-type"
UserTypeError(userType, dob, asOf) ==
    IF userType \in UserTypeBlacklist(dob, asOf)
    THEN (IF IsOver60(dob, asOf) THEN MsgOver60 ELSE MsgUnder60)
    ELSE FirstError(<<
        IF userType = "" THEN MsgUserTypeRequired ELSE OK,
        IF userType \notin {"student", "general", "pension"}
        THEN MsgUserTypeInvalid ELSE OK >>)

\* dob: Yup.date().required().typeError().max(new Date()), the limit being the
\* time the schema was constructed
DobError(dob, limit) ==
    IF dob.kind = "invalid" THEN MsgInvalidDate
    ELSE IF dob.kind \in {"null", "undefined"} THEN MsgDobRequired
    ELSE IF DateLT(limit, dob) THEN MsgDobFuture
    ELSE OK

-----------------------------------------------------------------------------
(* The school block *)

NoSchoolErrors == [school |-> OK, name |-> OK, id |-> OK, proof |-> OK, expiry |-> OK]

\* schoolSchema.name: trim, then min(2) (skipped for null and undefined), then required
SchoolNameError(name) ==
    IF name.kind \in {"null", "undefined"} THEN MsgSchoolNameRequired
    ELSE FirstError(<<
        IF Len(Trim(name.s)) < 2 THEN MsgSchoolNameMin ELSE OK,
        IF Len(Trim(name.s)) = 0 THEN MsgSchoolNameRequired ELSE OK >>)

\* /^[A-Za-z0-9-]+$/
MatchesSchoolId(s) ==
    /\ Len(s) >= 1
    /\ Chars(s) \subseteq (LowerLetters \cup UpperLetters \cup Digits \cup {"-"})

\* schoolSchema.id: trim, then matches (skipped for null and undefined), then required
SchoolIdError(id) ==
    IF id.kind \in {"null", "undefined"} THEN MsgSchoolIdRequired
    ELSE FirstError(<<
        IF ~MatchesSchoolId(Trim(id.s)) THEN MsgSchoolIdChars ELSE OK,
        IF Len(Trim(id.s)) = 0 THEN MsgSchoolIdRequired ELSE OK >>)

\* schoolSchema.proof: proofFileSchema.required("Proof is required")
SchoolProofError(sch, proof) ==
    IF ~RequiredTest(proof) THEN MsgProofRequired
    ELSE FirstError(ProofFileTests(sch, proof))

\* schoolSchema.expiry: Yup.date().required().typeError().min(new Date()), the
\* limit being the time the module was loaded
SchoolExpiryError(expiry, limit) ==
    IF expiry.kind = "invalid" THEN MsgInvalidDate
    ELSE IF expiry.kind \in {"null", "undefined"} THEN MsgExpiryRequired
    ELSE IF DateLT(expiry, limit) THEN MsgExpiryPast
    ELSE OK

\* the cast of the school value by schoolSchema: undefined becomes the object
\* schema's default, an object whose four fields are undefined
SchoolCast(school) ==
    IF school.kind = "undefined"
    THEN [kind |-> "object", name |-> Undef, id |-> Undef, proof |-> Undef,
          expiry |-> Undef]
    ELSE school

\* school when userType is "student": schoolSchema.required(...)
StudentSchoolErrors(sch, school, limit) ==
    LET v == SchoolCast(school)
    IN  IF v.kind = "null"
        THEN [NoSchoolErrors EXCEPT !.school = MsgSchoolRequired]
        ELSE [school |-> OK,
              name |-> SchoolNameError(v.name),
              id |-> SchoolIdError(v.id),
              proof |-> SchoolProofError(sch, v.proof),
              expiry |-> SchoolExpiryError(v.expiry, limit)]

\* mutant of SchoolHasData: the expiry date is forgotten
SchoolHasDataNoExpiry(v) ==
    \/ ~Falsy(v.name)
    \/ ~Falsy(v.id)
    \/ v.proof.kind = "list" /\ Len(v.proof.items) # 0

\* test "school-conditional": hasData
SchoolHasData(v) ==
    \/ ~Falsy(v.name)
    \/ ~Falsy(v.id)
    \/ v.proof.kind = "list" /\ Len(v.proof.items) # 0
    \/ v.expiry.kind \notin {"null", "undefined"}

\* school when userType is not "student": Yup.mixed().test("school-conditional"),
\* a mixed that is not nullable
OtherSchoolErrors(school) ==
    IF school.kind = "null"
    THEN [NoSchoolErrors EXCEPT !.school = MsgSchoolNotNull]
    ELSE IF school.kind = "undefined" THEN NoSchoolErrors
    ELSE IF SchoolHasData(school)
    THEN [NoSchoolErrors EXCEPT !.school = MsgSchoolOnlyStudents]
    ELSE NoSchoolErrors

\* school: Yup.mixed().nullable().when("userType", ...)
SchoolErrors(sch, userType, school, limit) ==
    IF userType = "student"
    THEN StudentSchoolErrors(sch, school, limit)
    ELSE OtherSchoolErrors(school)

-----------------------------------------------------------------------------
(* nationalIdProof *)

\* test "valid-for-pensioners"
ValidForPensioners(userType, v) ==
    \/ v.kind \in {"null", "undefined"}
    \/ v.kind = "list" /\ Len(v.items) = 0
    \/ userType = "pension"

\* nationalIdProof: proofFileSchema.nullable().test(...).when("userType", is
\* "pension": required)
NationalIdProofError(sch, userType, v) ==
    IF userType = "pension" /\ ~RequiredTest(v) THEN MsgNationalIdProofRequired
    ELSE FirstError(ProofFileTests(sch, v) \o
            << IF ~ValidForPensioners(userType, v)
               THEN MsgNationalIdProofOnlyPension ELSE OK >>)

-----------------------------------------------------------------------------
(* One validation run of the form schema *)

NoResult == [kind |-> "none"]

\* a test of the schema throws on these values: the proof tests of the school
\* block, which run for a student whose school is not null, or those of
\* nationalIdProof
ValidateThrows(sch, v) ==
    \/ /\ v.userType = "student"
       /\ SchoolCast(v.school).kind = "object"
       /\ ProofFileThrows(sch, SchoolCast(v.school).proof)
    \/ ProofFileThrows(sch, v.nationalIdProof)

\* schema.validate(values): rejected with the error a test threw, or else
\* every field's first error
ValidateForm(sch, v, load, built, today) ==
    IF ValidateThrows(sch, v) THEN [kind |-> "thrown", at |-> today]
    ELSE
    [kind |-> "done",
     at |-> today,
     profilePic |-> ProfilePicError(sch, v.profilePic),
     username |-> UsernameError(v.username),
     userType |-> UserTypeError(v.userType, v.dob, today),
     dob |-> DobError(v.dob, built),
     school |-> SchoolErrors(sch, v.userType, v.school, load),
     nationalIdProof |-> NationalIdProofError(sch, v.userType, v.nationalIdProof)]

-----------------------------------------------------------------------------
(* Input domains *)

Schemas == {"registration", "edit"}

\* the hours of a day at which the clock is read: midnight and mid-morning
ClockHours == {0, 10}

\* the hours of a day a date value can carry: midnight, as a date field gives
\* it, and late evening
ValueHours == {0, 23}

\* the times the clock shows
Clock == {DateAt(2025, 6, 14 + i, h) : i \in 0..ClockSpan, h \in ClockHours}

UserTypes == {"general", "student", "pension", "other", ""}

\* birth dates around the sixtieth birthday on the clock's days
AgeDobs == {Date(y, m, d) : y \in {1964, 1965, 1966}, m \in {5, 6, 7}, d \in {14, 15, 16}}

\* dates around the clock's days: one day before its first to one day after its last
NearDates == {DateAt(2025, 6, 13 + i, h) : i \in 0..(ClockSpan + 2), h \in ValueHours}

OkFile == File(1024 * 1024, "image/png")
PdfFile == File(FILE_SIZE_LIMIT, "application/pdf")
BigFile == File(3 * 1024 * 1024, "image/png")
OverFile == File(FILE_SIZE_LIMIT + 1, "image/jpeg")
BmpFile == File(1024 * 1024, "image/bmp")
BigBmpFile == File(3 * 1024 * 1024, "image/bmp")

ImageValues == {NullV, Undef, StringRef, OtherV, Blob(1024, "image/png"),
                OkFile, PdfFile, BigFile, OverFile, BmpFile, BigBmpFile,
                File(FILE_SIZE_LIMIT, "image/gif")}

OkBlob == Blob(1024 * 1024, "image/png")
BigBmpBlob == Blob(3 * 1024 * 1024, "image/bmp")

ProofElements == {OkFile, PdfFile, BigFile, BmpFile, StringRef, OtherV, OkBlob,
                  BigBmpBlob, NullV}

ProofValues == {NullV, Undef} \cup {List(s) : s \in BoundedSeq(ProofElements, MaxFiles)}

UsernameValues == {NullV, Undef} \cup {Str(s) : s \in BoundedSeq({"a", "1", "A"}, MaxLen)}

SchoolNames == {NullV, Str(<<>>), Str(<<"a">>), Str(<<"a", "b">>), Str(<<" ", "a">>)}
SchoolIds == {NullV, Str(<<>>), Str(<<"A", "-", "1">>), Str(<<"a", "_">>)}
SchoolProofs == {NullV, Undef, List(<<>>), List(<<OkFile>>), List(<<BigFile>>)}
SchoolExpiries == {NullV, InvalidDate} \cup NearDates

SchoolValues ==
    {NullV, Undef} \cup
    {[kind |-> "object", name |-> n, id |-> i, proof |-> p, expiry |-> e] :
        n \in SchoolNames, i \in SchoolIds, p \in SchoolProofs, e \in SchoolExpiries}

EmptySchool == [kind |-> "object", name |-> Str(<<>>), id |-> Str(<<>>),
                proof |-> NullV, expiry |-> NullV]

\* a form every field of which is valid: a general user thirty years old
ValidValues ==
    [profilePic |-> NullV,
     username |-> Str(<<"a", "b", "3", "d", "e">>),
     userType |-> "general",
     dob |-> Date(1995, 6, 14),
     school |-> EmptySchool,
     nationalIdProof |-> NullV]

\* a birth date that agrees with the user type: sixty-five years old for a
\* pensioner, thirty for the others
DobFor(u) == IF u = "pension" THEN Date(1960, 6, 14) ELSE Date(1995, 6, 14)

\* the locals existingUser and authError before checkExistingEmail has answered
NoAnswer == [kind |-> "none", email |-> "none", provider |-> "none"]

-----------------------------------------------------------------------------
(* The password-reset page at rest *)

\* the calls of onSubmit the model keeps apart
Handlers == 1..MaxHandlers

\* no call of onSubmit has been made
NoHandlerRan ==
    /\ pc = [h \in Handlers |-> "idle"]
    /\ submitted = [h \in Handlers |-> <<>>]
    /\ calls = [h \in Handlers |-> <<>>]
    /\ errorToasts = [h \in Handlers |-> 0]
    /\ successToasts = [h \in Handlers |-> 0]
    /\ pushed = [h \in Handlers |-> FALSE]
    /\ outcome = [h \in Handlers |-> "none"]
    /\ lookupAnswer = [h \in Handlers |-> NoAnswer]

ResetAtRest ==
    /\ from = FALSE
    /\ loggedInEmail = <<>>
    /\ initialEmail = <<>>
    /\ email = <<>>
    /\ isSubmitting = FALSE
    /\ fieldError = OK
    /\ NoHandlerRan

-----------------------------------------------------------------------------
(* The form: initial states and actions *)

\* the module is loaded, then the form schema is constructed; no validation yet
InitTime ==
    /\ loadTime \in Clock
    /\ schemaTime \in Clock
    /\ DateLE(loadTime, schemaTime)
    /\ now = schemaTime
    /\ result = NoResult

InitUserType ==
    /\ schema \in Schemas
    /\ values \in {[ValidValues EXCEPT !.userType = u, !.dob = b] :
                     u \in UserTypes, b \in AgeDobs \cup {NullV, InvalidDate}}
    /\ InitTime
    /\ ResetAtRest

InitSchool ==
    /\ schema \in Schemas
    /\ values \in {[ValidValues EXCEPT !.userType = u, !.dob = DobFor(u), !.school = s] :
                     u \in {"general", "student", "pension"}, s \in SchoolValues}
    /\ InitTime
    /\ ResetAtRest

InitProof ==
    /\ schema \in Schemas
    /\ values \in {[ValidValues EXCEPT !.userType = u, !.dob = DobFor(u),
                                       !.nationalIdProof = p] :
                     u \in UserTypes, p \in ProofValues}
    /\ InitTime
    /\ ResetAtRest

InitUsername ==
    /\ schema \in Schemas
    /\ values \in {[ValidValues EXCEPT !.username = u] : u \in UsernameValues}
    /\ InitTime
    /\ ResetAtRest

InitImage ==
    /\ schema \in Schemas
    /\ values \in {[ValidValues EXCEPT !.profilePic = f] : f \in ImageValues}
    /\ InitTime
    /\ ResetAtRest

InitDob ==
    /\ schema \in Schemas
    /\ values \in {[ValidValues EXCEPT !.dob = b] :
                     b \in NearDates \cup {NullV, InvalidDate, Date(1995, 6, 14)}}
    /\ InitTime
    /\ ResetAtRest

\* a student whose school block is valid but for its proof
StudentSchool(p) ==
    [kind |-> "object", name |-> Str(<<"a", "b">>), id |-> Str(<<"A", "-", "1">>),
     proof |-> p, expiry |-> Date(2025, 6, 14 + ClockSpan + 1)]

\* a proof list where it is allowed: school.proof of a student, nationalIdProof
\* of a pensioner
InitProofLists ==
    /\ schema \in Schemas
    /\ values \in
         {[ValidValues EXCEPT !.userType = "student", !.school = StudentSchool(p)] :
             p \in ProofValues}
         \cup
         {[ValidValues EXCEPT !.userType = "pension", !.dob = DobFor("pension"),
                              !.nationalIdProof = p] : p \in ProofValues}
    /\ InitTime
    /\ ResetAtRest

\* the file-valued fields: profilePic, or a proof list where it is allowed
InitFiles == InitImage \/ InitProofLists

\* time passes
Tick ==
    /\ \E t \in Clock : DateLT(now, t) /\ now' = t
    /\ UNCHANGED <<schema, values, loadTime, schemaTime, result>>
    /\ UNCHANGED resetVars

\* createRegistrationValidationSchema(cities) / editProfileFormValidationSchema(cities)
\* is called again: new Date() is read for dob's limit
CreateSchema ==
    /\ schemaTime # now
    /\ schemaTime' = now
    /\ UNCHANGED <<schema, values, loadTime, now, result>>
    /\ UNCHANGED resetVars

\* the form schema validates the current values
Validate ==
    /\ result' = ValidateForm(schema, values, loadTime, schemaTime, now)
    /\ UNCHANGED <<schema, values, loadTime, schemaTime, now>>
    /\ UNCHANGED resetVars

NextForm == Validate \/ Tick \/ CreateSchema

SpecUserType == InitUserType /\ [][NextForm]_vars
SpecSchool == InitSchool /\ [][NextForm]_vars
SpecProof == InitProof /\ [][NextForm]_vars
SpecUsername == InitUsername /\ [][NextForm]_vars
SpecImage == InitImage /\ [][NextForm]_vars
SpecDob == InitDob /\ [][NextForm]_vars
SpecFiles == InitFiles /\ [][NextForm]_vars

-----------------------------------------------------------------------------
(* The password-reset page (ForgotPassword) *)

Alnum == LowerLetters \cup UpperLetters \cup Digits

\* the grave accent (U+0060), which a string of this module cannot hold: this
\* name stands for the character
Grave == "grave"

\* characters the email rule allows before the "@":
\* [a-zA-Z0-9.!#$%&'*+\/=?^_`{|}~-]
EmailLocalChars ==
    Alnum \cup {".", "!", "#", "$", "%", "&", "'", "*", "+", "/", "=", "?", "^",
                "_", Grave, "{", "|", "}", "~", "-"}

\* the longest label of a domain: [a-zA-Z0-9](?:[a-zA-Z0-9-]{0,61}[a-zA-Z0-9])?
MaxLabelLen == 63

\* Yup.string().email(): one "@" after a non-empty local part, then labels of
\* letters, digits and inner hyphens, of at most 63 characters each, separated
\* by single dots
IsEmail(s) ==
    \E i \in 1..Len(s) :
        /\ s[i] = "@"
        /\ i > 1 /\ i < Len(s)
        /\ \A j \in 1..(i - 1) : s[j] \in EmailLocalChars
        /\ \A j \in (i + 1)..Len(s) : s[j] \in Alnum \cup {"-", "."}
        /\ s[i + 1] \in Alnum /\ s[Len(s)] \in Alnum
        /\ \A j \in (i + 1)..Len(s) :
              s[j] = "." => (s[j - 1] \in Alnum /\ s[j + 1] \in Alnum)
        /\ \A k \in (i + 1)..(Len(s) - MaxLabelLen) :
              \E j \in k..(k + MaxLabelLen) : s[j] = "."

\* validationSchema: email: Yup.string().email("Invalid email address").required("Required")
EmailError(s) ==
    IF s = <<>> THEN "Required"
    ELSE IF ~IsEmail(s) THEN "Invalid email address"
    ELSE OK

\* what can be typed: the strings over "a" and "@", a second valid address and
\* one whose local part is punctuation
Emails == BoundedSeq({"a", "@"}, MaxEmailLen) \cup {<<"b", "@", "a">>, <<"!", "@", "A">>}

\* the email useAuth() can deliver for the signed-in user
UserEmails == {<<"a", "@", "a">>}

\* what checkExistingEmail can give back: an error, a rejection, or the data
LookupResults ==
    {[kind |-> "error", email |-> "none", provider |-> "none"],
     [kind |-> "throws", email |-> "none", provider |-> "none"],
     [kind |-> "data", email |-> "null", provider |-> "null"],
     [kind |-> "data", email |-> "found", provider |-> "email"],
     [kind |-> "data", email |-> "found", provider |-> "google"],
     [kind |-> "data", email |-> "found", provider |-> "null"]}

\* what supabase.auth.resetPasswordForEmail can give back
ResetResults == {"error", "ok", "throws"}

\* `No password reset for users signed in with ${provider?.toUpperCase()}`
ProviderMessage(provider) ==
    IF provider = "google"
    THEN "No password reset for users signed in with GOOGLE"
    ELSE "No password reset for users signed in with undefined"

LookupCall(e) == [fn |-> "checkExistingEmail", email |-> e]
ResetCall(e) == [fn |-> "resetPasswordForEmail", email |-> e]

\* the page is mounted: useState("") and the form's initial value
InitReset ==
    /\ from \in BOOLEAN
    /\ loggedInEmail = <<>>
    /\ initialEmail = loggedInEmail
    /\ email = initialEmail
    /\ isSubmitting = FALSE
    /\ fieldError = OK
    /\ NoHandlerRan
    /\ schema = "registration"
    /\ values = ValidValues
    /\ loadTime = Date(2025, 6, 14)
    /\ schemaTime = loadTime
    /\ now = loadTime
    /\ result = NoResult

handlerVars == <<pc, submitted, calls, errorToasts, successToasts, pushed,
                 outcome, lookupAnswer>>

\* useAuth() delivers the email of the signed-in user: the effect calls
\* setLoggedInEmail and the component renders again with the new state; the
\* form still holds its old value, errors and isSubmitting
SetLoggedInEmail ==
    /\ \E e \in UserEmails :
          /\ e # loggedInEmail
          /\ loggedInEmail' = e
    /\ UNCHANGED <<from, initialEmail, email, isSubmitting, fieldError>>
    /\ UNCHANGED handlerVars
    /\ UNCHANGED formVars

\* formik's effect after a render whose initialValues differ from those it
\* holds: enableReinitialize being set, it takes them up and resets the form,
\* values to the initial ones, errors emptied, isSubmitting false. A handler
\* that is waiting goes on waiting.
Reinitialize ==
    /\ initialEmail # loggedInEmail
    /\ initialEmail' = loggedInEmail
    /\ email' = loggedInEmail
    /\ fieldError' = OK
    /\ isSubmitting' = FALSE
    /\ UNCHANGED <<from, loggedInEmail>>
    /\ UNCHANGED handlerVars
    /\ UNCHANGED formVars

\* formik.handleChange on the email input, which is disabled for a signed-in
\* user: the value changes and the form is validated
TypeEmail ==
    /\ loggedInEmail = <<>>
    /\ \E e \in Emails :
          /\ e # email
          /\ email' = e
          /\ fieldError' = EmailError(e)
    /\ UNCHANGED <<from, loggedInEmail, initialEmail,
                   isSubmitting>>
    /\ UNCHANGED handlerVars
    /\ UNCHANGED formVars

\* formik.handleBlur on the email input: the form is validated and its errors
\* are replaced by the result
Blur ==
    /\ loggedInEmail = <<>>
    /\ fieldError' = EmailError(email)
    /\ UNCHANGED <<from, loggedInEmail, initialEmail,
                   email, isSubmitting>>
    /\ UNCHANGED handlerVars
    /\ UNCHANGED formVars

\* mutant of Finish: setSubmitting(false) at the end of the try block, which
\* the early returns and the catch block do not reach
FinishAtEndOfTry(h, o) ==
    /\ isSubmitting' = (IF o = "sent" THEN FALSE ELSE isSubmitting)
    /\ pc' = [pc EXCEPT ![h] = "idle"]
    /\ outcome' = [outcome EXCEPT ![h] = o]

\* finally { setSubmitting(false) }: call h of the handler is over, with this
\* outcome
Finish(h, o) ==
    /\ isSubmitting' = FALSE
    /\ pc' = [pc EXCEPT ![h] = "idle"]
    /\ outcome' = [outcome EXCEPT ![h] = o]

\* the submit button, enabled while formik.isSubmitting is false, with a value
\* the validation schema rejects: the errors are set and onSubmit is not called
SubmitInvalid ==
    /\ ~isSubmitting
    /\ EmailError(email) # OK
    /\ fieldError' = EmailError(email)
    /\ UNCHANGED <<from, loggedInEmail, initialEmail,
                   email, isSubmitting>>
    /\ UNCHANGED handlerVars
    /\ UNCHANGED formVars

\* the slot a new call of onSubmit takes: the first whose handler is not running
FreeSlot ==
    CHOOSE h \in Handlers :
        pc[h] = "idle" /\ \A g \in Handlers : pc[g] = "idle" => h <= g

\* the submit button with a valid value: onSubmit runs to its first await, the
\* lookup when "from" is absent and the reset request otherwise
Submit ==
    /\ ~isSubmitting
    /\ EmailError(email) = OK
    /\ \E g \in Handlers : pc[g] = "idle"
    /\ LET h == FreeSlot
       IN  /\ isSubmitting' = TRUE
           /\ submitted' = [submitted EXCEPT ![h] = email]
           /\ fieldError' = OK
           /\ errorToasts' = [errorToasts EXCEPT ![h] = 0]
           /\ successToasts' = [successToasts EXCEPT ![h] = 0]
           /\ pushed' = [pushed EXCEPT ![h] = FALSE]
           /\ outcome' = [outcome EXCEPT ![h] = "none"]
           /\ lookupAnswer' = [lookupAnswer EXCEPT ![h] = NoAnswer]
           /\ IF ~from
              THEN /\ calls' = [calls EXCEPT ![h] = <<LookupCall(email)>>]
                   /\ pc' = [pc EXCEPT ![h] = "lookup"]
              ELSE /\ calls' = [calls EXCEPT ![h] = <<ResetCall(email)>>]
                   /\ pc' = [pc EXCEPT ![h] = "reset"]
    /\ UNCHANGED <<from, loggedInEmail, initialEmail,
                   email>>
    /\ UNCHANGED formVars

\* mutant of AfterLookup: no return after the toast of a lookup error, so the
\* handler goes on to the reset request
AfterLookupNoReturn(h, r) ==
    CASE r.kind = "throws" ->
            /\ errorToasts' = [errorToasts EXCEPT ![h] = @ + 1]
            /\ Finish(h, "lookupThrown")
            /\ UNCHANGED <<calls, fieldError>>
      [] r.kind = "error" ->
            /\ errorToasts' = [errorToasts EXCEPT ![h] = @ + 1]
            /\ calls' = [calls EXCEPT ![h] = Append(@, ResetCall(submitted[h]))]
            /\ pc' = [pc EXCEPT ![h] = "reset"]
            /\ outcome' = [outcome EXCEPT ![h] = "lookupError"]
            /\ UNCHANGED <<isSubmitting, fieldError>>
      [] r.kind = "data" /\ r.email = "null" ->
            /\ fieldError' = "The email is not registered."
            /\ Finish(h, "notRegistered")
            /\ UNCHANGED <<calls, errorToasts>>
      [] r.kind = "data" /\ r.email # "null" /\ r.provider # "email" ->
            /\ fieldError' = ProviderMessage(r.provider)
            /\ Finish(h, "otherProvider")
            /\ UNCHANGED <<calls, errorToasts>>
      [] OTHER ->
            /\ calls' = [calls EXCEPT ![h] = Append(@, ResetCall(submitted[h]))]
            /\ pc' = [pc EXCEPT ![h] = "reset"]
            /\ UNCHANGED <<isSubmitting, outcome, errorToasts, fieldError>>

\* mutant of AfterLookup: the provider of a registered email is not looked at
AfterLookupNoProviderCheck(h, r) ==
    CASE r.kind = "throws" ->
            /\ errorToasts' = [errorToasts EXCEPT ![h] = @ + 1]
            /\ Finish(h, "lookupThrown")
            /\ UNCHANGED <<calls, fieldError>>
      [] r.kind = "error" ->
            /\ errorToasts' = [errorToasts EXCEPT ![h] = @ + 1]
            /\ Finish(h, "lookupError")
            /\ UNCHANGED <<calls, fieldError>>
      [] r.kind = "data" /\ r.email = "null" ->
            /\ fieldError' = "The email is not registered."
            /\ Finish(h, "notRegistered")
            /\ UNCHANGED <<calls, errorToasts>>
      [] OTHER ->
            /\ calls' = [calls EXCEPT ![h] = Append(@, ResetCall(submitted[h]))]
            /\ pc' = [pc EXCEPT ![h] = "reset"]
            /\ UNCHANGED <<isSubmitting, outcome, errorToasts, fieldError>>

\* call h of onSubmit from the lookup's answer to the next await or to the end
AfterLookup(h, r) ==
    CASE r.kind = "throws" ->
            /\ errorToasts' = [errorToasts EXCEPT ![h] = @ + 1]
            /\ Finish(h, "lookupThrown")
            /\ UNCHANGED <<calls, fieldError>>
      [] r.kind = "error" ->
            /\ errorToasts' = [errorToasts EXCEPT ![h] = @ + 1]
            /\ Finish(h, "lookupError")
            /\ UNCHANGED <<calls, fieldError>>
      [] r.kind = "data" /\ r.email = "null" ->
            /\ fieldError' = "The email is not registered."
            /\ Finish(h, "notRegistered")
            /\ UNCHANGED <<calls, errorToasts>>
      [] r.kind = "data" /\ r.email # "null" /\ r.provider # "email" ->
            /\ fieldError' = ProviderMessage(r.provider)
            /\ Finish(h, "otherProvider")
            /\ UNCHANGED <<calls, errorToasts>>
      [] OTHER ->
            /\ calls' = [calls EXCEPT ![h] = Append(@, ResetCall(submitted[h]))]
            /\ pc' = [pc EXCEPT ![h] = "reset"]
            /\ UNCHANGED <<isSubmitting, outcome, errorToasts, fieldError>>

\* checkExistingEmail settles for call h
LookupReturnsOf(h) ==
    /\ pc[h] = "lookup"
    /\ \E r \in LookupResults :
          /\ AfterLookup(h, r)
          /\ lookupAnswer' = [lookupAnswer EXCEPT ![h] = r]
    /\ UNCHANGED <<from, loggedInEmail, initialEmail,
                   email, submitted, successToasts, pushed>>
    /\ UNCHANGED formVars

LookupReturns == \E h \in Handlers : LookupReturnsOf(h)

\* call h of onSubmit from the reset request's answer to the end
AfterReset(h, r) ==
    CASE r = "throws" ->
            /\ errorToasts' = [errorToasts EXCEPT ![h] = @ + 1]
            /\ Finish(h, "resetThrown")
            /\ UNCHANGED <<successToasts, pushed>>
      [] r = "error" ->
            /\ errorToasts' = [errorToasts EXCEPT ![h] = @ + 1]
            /\ Finish(h, "resetError")
            /\ UNCHANGED <<successToasts, pushed>>
      [] OTHER ->
            /\ successToasts' = [successToasts EXCEPT ![h] = @ + 1]
            /\ pushed' = [pushed EXCEPT ![h] = TRUE]
            /\ Finish(h, "sent")
            /\ UNCHANGED errorToasts

\* supabase.auth.resetPasswordForEmail settles for call h
ResetReturnsOf(h) ==
    /\ pc[h] = "reset"
    /\ \E r \in ResetResults : AfterReset(h, r)
    /\ UNCHANGED <<from, loggedInEmail, initialEmail,
                   email, submitted, calls, fieldError,
                   lookupAnswer>>
    /\ UNCHANGED formVars

ResetReturns == \E h \in Handlers : ResetReturnsOf(h)

NextReset ==
    \/ SetLoggedInEmail
    \/ Reinitialize
    \/ TypeEmail
    \/ Blur
    \/ SubmitInvalid
    \/ Submit
    \/ LookupReturns
    \/ ResetReturns

SpecReset == InitReset /\ [][NextReset]_vars

\* the external calls settle, an awaited call that has been issued returns,
\* and formik's effect runs after the render that calls for it
FairSpecReset ==
    /\ SpecReset
    /\ WF_vars(Reinitialize)
    /\ \A h \in Handlers : WF_vars(LookupReturnsOf(h)) /\ WF_vars(ResetReturnsOf(h))

-----------------------------------------------------------------------------
(* Properties *)

\* what the properties call empty and present
EmptyText(v) == v.kind \in {"null", "undefined"} \/ (v.kind = "string" /\ v.s = <<>>)
EmptyList(v) == v.kind \in {"null", "undefined"} \/ (v.kind = "list" /\ v.items = <<>>)
EmptyDate(v) == v.kind \in {"null", "undefined"}

\* a binary file within the size limit and of a type proof files may have
ValidProofFile(f) ==
    /\ f.kind = "file"
    /\ f.size <= 2 * 1024 * 1024
    /\ f.type \in GENERAL_SUPPORTED_FORMATS

AllValidFiles(v) ==
    v.kind = "list" => \A i \in 1..Len(v.items) : ValidProofFile(v.items[i])

Validated == result.kind = "done"

\* C1: in both schemas, for a dob that is a date, userType is accepted exactly
\* when the age on the day of validation is under 60 and the type is general or
\* student, or the age is 60 or more and the type is pension; pension under 60
\* fails with "Age is less than 60 for Pension User." and student or general at
\* 60 or more fails.
C1_UserTypeFollowsAge ==
    (Validated /\ values.dob.kind = "date") =>
        LET age == calculateAge(values.dob, result.at)
            u == values.userType
        IN  /\ (result.userType = OK) <=>
                  \/ age < 60 /\ u \in {"general", "student"}
                  \/ age >= 60 /\ u = "pension"
            /\ (age < 60 /\ u = "pension") => result.userType = MsgUnder60
            /\ (age >= 60 /\ u \in {"student", "general"}) => result.userType = MsgOver60

\* a pensioner validated on the sixtieth birthday is accepted
C1_Witness ==
    /\ Validated
    /\ values.dob.kind = "date"
    /\ calculateAge(values.dob, result.at) = 60
    /\ values.dob.m = result.at.m /\ values.dob.d = result.at.d
    /\ values.userType = "pension"
    /\ result.userType = OK

\* C2: for a userType other than student, the school field fails with "School
\* details are only allowed for student users" whenever name, id or expiry is
\* present or proof is a non-empty list, and passes when the block is absent or
\* all four are empty.
C2_SchoolOnlyForStudents ==
    (Validated /\ values.userType # "student" /\ values.school.kind # "null") =>
        LET s == values.school
            allEmpty == \/ s.kind = "undefined"
                        \/ /\ EmptyText(s.name) /\ EmptyText(s.id)
                           /\ EmptyList(s.proof) /\ EmptyDate(s.expiry)
        IN  /\ ~allEmpty => result.school.school = MsgSchoolOnlyStudents
            /\ allEmpty => result.school = NoSchoolErrors

\* a general user whose school block holds only an expiry date is refused
C2_Witness ==
    /\ Validated
    /\ values.userType = "general"
    /\ values.school.kind = "object"
    /\ EmptyText(values.school.name) /\ EmptyText(values.school.id)
    /\ EmptyList(values.school.proof)
    /\ values.school.expiry.kind = "date"
    /\ result.school.school = MsgSchoolOnlyStudents

\* C3: for a student, the school block fails whenever one of name, id, proof,
\* expiry is missing (empty string, null, empty proof list) and passes when all
\* four are present and each is valid (name of at least 2 characters, id of
\* letters, digits and hyphens, proof a list of valid files, expiry a date not
\* before the time of validation).
C3_StudentSchoolRequired ==
    (Validated /\ values.userType = "student" /\ values.school.kind = "object") =>
        LET s == values.school
            missing == \/ EmptyText(s.name) \/ EmptyText(s.id)
                       \/ EmptyList(s.proof) \/ EmptyDate(s.expiry)
            valid == /\ Len(Trim(s.name.s)) >= 2
                     /\ MatchesSchoolId(Trim(s.id.s))
                     /\ AllValidFiles(s.proof)
                     /\ s.expiry.kind = "date" /\ DateLE(result.at, s.expiry)
        IN  /\ missing => result.school # NoSchoolErrors
            /\ (~missing /\ valid) => result.school = NoSchoolErrors

\* C4: for a nationalIdProof whose elements are all valid files: with userType
\* pension an empty value (null, absent, empty list) fails and a non-empty list
\* passes; with another userType a non-empty list fails with "National ID Proof
\* is only allowed for pensioners." and an empty value passes.
C4_NationalIdProofMatchesType ==
    (Validated /\ AllValidFiles(values.nationalIdProof)) =>
        LET p == values.nationalIdProof
        IN  IF values.userType = "pension"
            THEN (EmptyList(p) <=> result.nationalIdProof # OK)
            ELSE /\ ~EmptyList(p) => result.nationalIdProof = MsgNationalIdProofOnlyPension
                 /\ EmptyList(p) => result.nationalIdProof = OK

\* C5: the username is accepted exactly when it has 5 characters, each a
\* lowercase letter or a digit, with at least one letter and at least one digit.
C5_UsernameRule ==
    Validated =>
        LET u == values.username
        IN  (result.username = OK) <=>
                /\ u.kind = "string"
                /\ Len(u.s) = 5
                /\ \A i \in 1..Len(u.s) : u.s[i] \in LowerLetters \cup Digits
                /\ \E i \in 1..Len(u.s) : u.s[i] \in LowerLetters
                /\ \E i \in 1..Len(u.s) : u.s[i] \in Digits

\* a username of four letters and one digit is accepted
C5_Witness ==
    /\ Validated
    /\ values.username.kind = "string"
    /\ Len(values.username.s) = 5
    /\ Cardinality({i \in 1..5 : values.username.s[i] \in Digits}) = 1
    /\ result.username = OK

\* C6: a binary file given as profilePic is accepted exactly when its size is
\* at most 2 MB and its type is in the image allow-list; above the limit it
\* fails the size check whatever its type, and within the limit with another
\* type it fails the format check.
C6_ProfilePicFileRule ==
    (Validated /\ values.profilePic.kind = "file") =>
        LET f == values.profilePic
            small == f.size <= 2 * 1024 * 1024
            image == f.type \in {"image/jpg", "image/jpeg", "image/gif", "image/png"}
        IN  /\ (result.profilePic = OK) <=> (small /\ image)
            /\ ~small => result.profilePic = MsgTooLarge
            /\ (small /\ ~image) => result.profilePic = MsgImageFormat

\* a file of 3 MB of an unsupported type fails the size check
C6_Witness ==
    /\ Validated
    /\ values.profilePic.kind = "file"
    /\ values.profilePic.size = 3 * 1024 * 1024
    /\ values.profilePic.type = "image/bmp"
    /\ result.profilePic = MsgTooLarge

\* C7: dob is checked against the time validation runs: a dob that is a date is
\* accepted if it is not later than that time and refused with "Date of birth
\* cannot be in the future" if it is later.
C7_DobAgainstValidationTime ==
    (Validated /\ values.dob.kind = "date") =>
        /\ DateLE(values.dob, result.at) => result.dob = OK
        /\ DateLT(result.at, values.dob) => result.dob = MsgDobFuture

FailedOutcomes == {"lookupError", "lookupThrown", "resetError", "resetThrown"}

\* C8: in a submit attempt where the lookup gives an error, the reset request
\* gives an error, or a call throws, exactly one error notification is shown,
\* no further external call is made (no retry, no reset request after a failed
\* lookup), and the login page is not navigated to.
C8_FailureReportedOnce ==
    \A h \in Handlers :
        outcome[h] \in FailedOutcomes =>
            /\ errorToasts[h] = 1
            /\ successToasts[h] = 0
            /\ ~pushed[h]
            /\ pc[h] = "idle"
            /\ \A i, j \in 1..Len(calls[h]) :
                  calls[h][i].fn = calls[h][j].fn => i = j
            /\ outcome[h] \in {"lookupError", "lookupThrown"} =>
                  calls[h] = <<LookupCall(submitted[h])>>
            /\ outcome[h] \in {"resetError", "resetThrown"} =>
                  calls[h][Len(calls[h])] = ResetCall(submitted[h])

\* an attempt whose lookup gave an error has ended
C8_Witness ==
    \E h \in Handlers :
        /\ outcome[h] = "lookupError"
        /\ errorToasts[h] = 1
        /\ calls[h] = <<LookupCall(submitted[h])>>
        /\ ~isSubmitting

\* the steps of the submit handler
HandlerStep == SubmitInvalid \/ Submit \/ LookupReturns \/ ResetReturns

\* C9: every submit attempt, whatever the external calls give, ends, the
\* submitting flag is cleared when it ends, and no step of the handler changes
\* the email value of the form.
C9_SubmitEnds ==
    /\ \A h \in Handlers : (pc[h] # "idle") ~> (pc[h] = "idle")
    /\ [][\A h \in Handlers :
            (pc[h] # "idle" /\ pc'[h] = "idle") => ~isSubmitting']_vars
    /\ [][HandlerStep => email' = email]_vars

\* an attempt whose reset request threw has ended with the flag cleared
C9_Witness ==
    \E h \in Handlers :
        /\ outcome[h] = "resetThrown"
        /\ pc[h] = "idle"
        /\ ~isSubmitting
        /\ email = submitted[h]

\* C10: for a student, a validation run at time t refuses every school.expiry
\* earlier than t with "Expiry date cannot be in the past", whatever time has
\* passed since the module was loaded.
C10_ExpiryAgainstValidationTime ==
    (/\ Validated
     /\ values.userType = "student"
     /\ values.school.kind = "object"
     /\ values.school.expiry.kind = "date"
     /\ DateLT(values.school.expiry, result.at)) =>
        result.school.expiry = MsgExpiryPast

\* the proof list under validation and the error of its field
ProofField ==
    IF values.userType = "student" /\ values.school.kind = "object"
    THEN values.school.proof ELSE values.nationalIdProof

ProofFieldError ==
    IF values.userType = "student" /\ values.school.kind = "object"
    THEN result.school.proof ELSE result.nationalIdProof

OverLimit(f) == f.kind = "file" /\ f.size > FILE_SIZE_LIMIT
BadProofType(f) == f.kind = "file" /\ f.type \notin GENERAL_SUPPORTED_FORMATS

\* a non-empty list all of whose elements are binary files
ListOfFiles(v) ==
    /\ v.kind = "list"
    /\ v.items # <<>>
    /\ \A i \in 1..Len(v.items) : v.items[i].kind = "file"

\* the first element of the list that violates a rule, 0 if none does
FirstOffender(v) ==
    LET bad == {i \in 1..Len(v.items) : OverLimit(v.items[i]) \/ BadProofType(v.items[i])}
    IN  IF bad = {} THEN 0 ELSE CHOOSE i \in bad : \A j \in bad : i <= j

\* C11 as stated: a proof-file list fails with the message of its first
\* offending element, "File too large" if that element is over 2 MB and
\* "Unsupported file format" if its type is outside the allow-list, whatever
\* the later elements violate.
C11_FirstOffendingElement ==
    (Validated /\ ListOfFiles(ProofField) /\ FirstOffender(ProofField) # 0) =>
        LET f == ProofField.items[FirstOffender(ProofField)]
        IN  /\ OverLimit(f) => ProofFieldError = MsgTooLarge
            /\ (~OverLimit(f) /\ BadProofType(f)) => ProofFieldError = MsgProofFormat

\* element i of the list is read by the registration size test (every element
\* before it has a size within the limit) or by its format test (every element
\* before it has a supported type)
ReachedBySizeOrFormat(v, i) ==
    \/ \A j \in 1..(i - 1) :
          v.items[j].kind \in {"file", "blob"} /\ v.items[j].size <= FILE_SIZE_LIMIT
    \/ \A j \in 1..(i - 1) :
          /\ v.items[j].kind \in {"file", "blob"}
          /\ v.items[j].type \in GENERAL_SUPPORTED_FORMATS

\* C11 amended: a proof-file list fails with the message of the first rule, in
\* the order declared, that some element of the list violates, wherever that
\* element stands. Registration: "Not a file" if any element is not a binary
\* file; otherwise "File too large (max 2MB)" if any file is over 2 MB;
\* otherwise "Unsupported file format" if any file has a type outside the
\* allow-list; and the run throws instead when its size or format rule reaches
\* a null or undefined element. Edit: "File too large (max 2MB)" if any file is
\* over 2 MB or any element is neither a binary file nor a string; otherwise
\* "Unsupported file format" if any file has a type outside the allow-list.
\* A list no rule of which is violated passes.
C11_FirstFailingRule ==
    (result.kind # "none" /\ ProofField.kind = "list") =>
        LET v == ProofField
            n == Len(v.items)
            anyNonFile == \E i \in 1..n : v.items[i].kind # "file"
            anyLarge == \E i \in 1..n : OverLimit(v.items[i])
            anyBadType == \E i \in 1..n : BadProofType(v.items[i])
            anyOther == \E i \in 1..n : v.items[i].kind \notin {"file", "string"}
            nullRead == \E i \in 1..n :
                            /\ v.items[i].kind \in {"null", "undefined"}
                            /\ ReachedBySizeOrFormat(v, i)
        IN  IF schema = "registration"
            THEN /\ result.kind = "thrown" <=> nullRead
                 /\ Validated =>
                       ProofFieldError =
                           (IF anyNonFile THEN MsgNotAFile
                            ELSE IF anyLarge THEN MsgTooLarge
                            ELSE IF anyBadType THEN MsgProofFormat
                            ELSE OK)
            ELSE /\ Validated
                 /\ ProofFieldError =
                       (IF anyLarge \/ anyOther THEN MsgTooLarge
                        ELSE IF anyBadType THEN MsgProofFormat
                        ELSE OK)

\* a list whose first element has an unsupported type and whose second is too
\* large is reported as too large
C11_Witness ==
    /\ Validated
    /\ ListOfFiles(ProofField)
    /\ Len(ProofField.items) >= 2
    /\ ~OverLimit(ProofField.items[1]) /\ BadProofType(ProofField.items[1])
    /\ OverLimit(ProofField.items[2])
    /\ ProofFieldError = MsgTooLarge

\* a value that is not a binary file: a string or an object of another shape
NonFile(v) == v.kind \in {"string", "other", "blob"}

\* a list whose elements that carry a size and a type are all valid and that
\* holds at least one element that is not a binary file
ListWithNonFiles(v) ==
    /\ v.kind = "list"
    /\ \A i \in 1..Len(v.items) :
          v.items[i].kind \in {"file", "blob"} =>
              /\ v.items[i].size <= 2 * 1024 * 1024
              /\ v.items[i].type \in GENERAL_SUPPORTED_FORMATS
    /\ \E i \in 1..Len(v.items) : v.items[i].kind # "file"

\* a null or undefined element that only elements with a size and a type precede
NullElementIsRead(v) ==
    \E i \in 1..Len(v.items) :
        /\ v.items[i].kind \in {"null", "undefined"}
        /\ \A j \in 1..(i - 1) : v.items[j].kind \in {"file", "blob"}

\* what both statements of C12 say of the registration schema: a value that is
\* not a binary file is refused with "Not a file"
RegistrationRefusesNonFiles ==
    (Validated /\ schema = "registration") =>
        /\ NonFile(values.profilePic) => result.profilePic = MsgNotAFile
        /\ ListWithNonFiles(ProofField) => ProofFieldError = MsgNotAFile

\* C12 as stated: in the edit schema every value that is not a binary file, a
\* string or any other shape, passes the size and the format rule, as
\* profilePic and as an element of a proof list; the registration schema
\* refuses such values with "Not a file".
C12_EditPassesEveryNonFile ==
    /\ RegistrationRefusesNonFiles
    /\ (Validated /\ schema = "edit") =>
          /\ NonFile(values.profilePic) => result.profilePic = OK
          /\ ListWithNonFiles(ProofField) => ProofFieldError = OK

\* C12 amended: in the edit schema a string passes the size and the format
\* rule, as profilePic and as an element of a proof list, and a value that is
\* neither a binary file nor a string fails the size rule with "File too large
\* (max 2MB)"; the registration schema refuses every value that is not a binary
\* file with "Not a file", unless its size or format test reaches a null or
\* undefined element of a list, in which case the validation run throws.
C12_EditPassesStringsOnly ==
    /\ RegistrationRefusesNonFiles
    /\ (result.kind # "none" /\ schema = "registration" /\ ListWithNonFiles(ProofField)) =>
          (result.kind = "thrown" <=> NullElementIsRead(ProofField))
    /\ (result.kind # "none" /\ schema = "edit") => Validated
    /\ (Validated /\ schema = "edit") =>
          /\ values.profilePic.kind = "string" => result.profilePic = OK
          /\ values.profilePic.kind \in {"other", "blob"} =>
                result.profilePic = MsgTooLarge
          /\ ListWithNonFiles(ProofField) =>
                LET v == ProofField
                    anyOther == \E i \in 1..Len(v.items) :
                                    v.items[i].kind \notin {"file", "string"}
                IN  ProofFieldError = (IF anyOther THEN MsgTooLarge ELSE OK)

\* the edit schema has refused a proof list that holds a string and a value of
\* another shape
C12_Witness ==
    /\ Validated
    /\ schema = "edit"
    /\ ListWithNonFiles(ProofField)
    /\ \E i \in 1..Len(ProofField.items) : ProofField.items[i].kind = "other"
    /\ \E i \in 1..Len(ProofField.items) : ProofField.items[i].kind = "string"
    /\ ProofFieldError = MsgTooLarge

ResetRequested(h) ==
    \E i \in 1..Len(calls[h]) : calls[h][i].fn = "resetPasswordForEmail"
LookupMade(h) ==
    \E i \in 1..Len(calls[h]) : calls[h][i].fn = "checkExistingEmail"

\* C13: a reset request is issued, for the submitted email, only if the "from"
\* parameter is present or the lookup answered without error with a non-null
\* email and provider "email"; when "from" is present the lookup is never
\* called, so the reset request is the first and only call of the attempt.
C13_ResetOnlyAfterCheckOrFrom ==
    \A h \in Handlers :
        /\ ResetRequested(h) =>
              /\ \/ from
                 \/ /\ LookupMade(h)
                    /\ lookupAnswer[h].kind = "data"
                    /\ lookupAnswer[h].email # "null"
                    /\ lookupAnswer[h].provider = "email"
              /\ \A i \in 1..Len(calls[h]) :
                    calls[h][i].fn = "resetPasswordForEmail" =>
                        calls[h][i].email = submitted[h]
        /\ from => ~LookupMade(h)
        /\ (from /\ pc[h] # "idle") => calls[h] = <<ResetCall(submitted[h])>>

\* with "from" present a reset email was sent without any lookup
C13_Witness ==
    \E h \in Handlers :
        /\ from
        /\ outcome[h] = "sent"
        /\ calls[h] = <<ResetCall(submitted[h])>>
        /\ lookupAnswer[h] = NoAnswer
=============================================================================
